---- MODULE Spec2Model ----
(***************************************************************************)
(* RandomVideo.py: a MoviePlayer (the main thread: play_playlist,          *)
(* _play_single_video, _play_frames) that plays random segments of the     *)
(* video files of a directory, and one FrameLoader thread per segment that *)
(* decodes frames into a bounded queue.Queue.                              *)
(*                                                                         *)
(* Segment k (1, 2, ...) owns loader k and queue k: _play_single_video     *)
(* builds a fresh queue and a fresh FrameLoader on every call, and an      *)
(* earlier loader may still be running (join has a timeout).               *)
(***************************************************************************)
EXTENDS Integers, Sequences, FiniteSets, TLC

\* ------------------------------------------------------------------ bounds
\* queue.Queue(maxsize=240) (line 204) and preload_size=120 (line 11) in the
\* source.  The model keeps the capacity and the threshold as parameters, the
\* threshold half the capacity as in the source, and is checked at small values
\* of them: the code compares them with queue lengths only.
maxsize == 4
preload_size == 2
\* The longest frame sequence a Frame Source yields (longer than maxsize).
MaxFrames == 5
\* The number of segments the scheduler starts before the model stops.
MaxSegments == 2
\* The largest asset duration, in seconds.
MaxDuration == 4
\* The largest configured interval, in seconds.
MaxInterval == 3
\* The calls of stop() an owner makes on one loader.
MaxStops == 2
\* The clock value up to which time passes on its own, in frame periods.
MaxClock == 3

\* The end-of-stream marker: frame_queue.put(None).  Frames are 1, 2, ...
EndMarker == 0
\* No frame has been dequeued yet in this call of _play_frames.
NoGet == 0 - 1
\* 1.0 / fps, the frame period, as the unit of the clock.
frame_time == 1

Files == {"a", "b"}
Segs == 1..MaxSegments

VARIABLES
    \* MoviePlayer fields
    min_interval, max_interval, movie_files, movie_durations, playlist, current_index,
    \* the main thread: where it is, and the locals of _play_single_video
    pc, nseg, movie_file, play_duration, start_time, end_time,
    \* the locals of _play_frames, and the clock
    frame, now, current_time, next_frame_time, elapsed_time, rendered,
    \* for the frame in hand: what _handle_events found; for the record: the clock
    \* at the last dequeue of a frame in this call of _play_frames (NoGet: none yet)
    event, last_get,
    \* how the current call of _play_frames ended; per segment, what join found
    outcome, joined,
    \* per loader: FrameLoader fields, the thread's position, its queue
    lpc, stop_event, error, clip, yielded, frame_queue, puts,
    \* per loader, for the record: whether its Frame Source raised, and the calls
    \* of stop() completed
    raised, stops,
    \* per loader: the FrameLoader field preload_size, set by the constructor
    preload

cfgVars == <<min_interval, max_interval, movie_files, movie_durations, preload>>
schedVars == <<playlist, current_index>>
segVars == <<movie_file, play_duration, start_time, end_time>>
pacerVars == <<frame, now, current_time, next_frame_time, elapsed_time, rendered,
               event, last_get>>
loaderVars == <<lpc, stop_event, error, clip, yielded, frame_queue, puts, raised, stops>>
vars == <<cfgVars, schedVars, pc, nseg, segVars, pacerVars, outcome, joined, loaderVars>>

\* ------------------------------------------------------------- pure helpers
Min(a, b) == IF a <= b THEN a ELSE b

\* random.randint(a, b): any integer of a..b.
RandInt(a, b) == a..b

\* random.shuffle(list(movie_files)): any ordering of the files.
Shuffles(S) ==
    {p \in [1..Cardinality(S) -> S] : \A i, j \in 1..Cardinality(S) : p[i] = p[j] => i = j}

\* A variant of PlayDurations: max instead of min in the upper limit.
PlayDurationsMax(duration) ==
    IF duration >= min_interval
    THEN RandInt(min_interval, IF max_interval >= duration THEN max_interval ELSE duration)
    ELSE {duration}

\* play_duration of _play_single_video.
PlayDurations(duration) ==
    IF duration >= min_interval
    THEN RandInt(min_interval, Min(max_interval, duration))
    ELSE {duration}

\* A variant of StartTimes: the upper limit is the duration, not duration - pd.
StartTimesWhole(duration, pd) ==
    IF duration > pd THEN RandInt(0, duration) ELSE {0}

\* start_time of _play_single_video.
StartTimes(duration, pd) ==
    IF duration > pd THEN RandInt(0, duration - pd) ELSE {0}

\* get_movie_files keeps the files whose duration is at least min_interval.
Suitable(durs, mn) == {f \in DOMAIN durs : durs[f] >= mn}

\* ------------------------------------------------------------------- Init
\* The state after MoviePlayer.__init__ with the arguments main accepts.
LoaderInit ==
    /\ lpc = [l \in Segs |-> "unstarted"]
    /\ stop_event = [l \in Segs |-> FALSE]
    /\ error = [l \in Segs |-> "none"]
    /\ clip = [l \in Segs |-> "none"]
    /\ yielded = [l \in Segs |-> 0]
    /\ frame_queue = [l \in Segs |-> <<>>]
    /\ puts = [l \in Segs |-> <<>>]
    /\ raised = [l \in Segs |-> FALSE]
    /\ stops = [l \in Segs |-> 0]
    /\ preload = [l \in Segs |-> preload_size]
    /\ outcome = "none"
    /\ joined = [l \in Segs |-> "no"]

PacerInitState ==
    /\ frame = 0
    /\ now = 0
    /\ current_time = 0
    /\ next_frame_time = 0
    /\ elapsed_time = 0
    /\ rendered = 0
    /\ event = "none"
    /\ last_get = NoGet

Init ==
    /\ min_interval = 1
    /\ max_interval = 2
    /\ movie_durations \in [Files -> {0, 1}]
    /\ movie_files = Suitable(movie_durations, min_interval)
    /\ movie_files # {}
    /\ playlist \in Shuffles(movie_files)
    /\ current_index = 0
    /\ pc = "loop"
    /\ nseg = 0
    /\ movie_file = "a"
    /\ play_duration = 0
    /\ start_time = 0
    /\ end_time = 0
    /\ PacerInitState
    /\ LoaderInit

\* ------------------------------------------------- the main thread: scheduler
\* A variant of PickMovie: the playlist is reshuffled one asset early.
PickMovieEarlyReshuffle ==
    /\ pc = "loop"
    /\ nseg < MaxSegments
    /\ IF current_index >= Len(playlist) - 1
       THEN \E p \in Shuffles(movie_files) :
               /\ playlist' = p
               /\ movie_file' = p[1]
               /\ current_index' = 1
       ELSE /\ movie_file' = playlist[current_index + 1]
            /\ current_index' = current_index + 1
            /\ UNCHANGED playlist
    /\ pc' = "plan"
    /\ UNCHANGED <<cfgVars, nseg, play_duration, start_time, end_time, pacerVars,
                   outcome, joined, loaderVars>>

\* play_playlist, lines 170-177.
PickMovie ==
    /\ pc = "loop"
    /\ nseg < MaxSegments
    /\ IF current_index >= Len(playlist)
       THEN \E p \in Shuffles(movie_files) :
               /\ playlist' = p
               /\ movie_file' = p[1]
               /\ current_index' = 1
       ELSE /\ movie_file' = playlist[current_index + 1]
            /\ current_index' = current_index + 1
            /\ UNCHANGED playlist
    /\ pc' = "plan"
    /\ UNCHANGED <<cfgVars, nseg, play_duration, start_time, end_time, pacerVars,
                   outcome, joined, loaderVars>>

\* _play_single_video, lines 191-202.
PlanSegment ==
    /\ pc = "plan"
    /\ LET duration == movie_durations[movie_file] IN
       \E pd \in PlayDurations(duration) :
       \E st \in StartTimes(duration, pd) :
           /\ play_duration' = pd
           /\ start_time' = st
           /\ end_time' = st + pd
    /\ pc' = "start"
    /\ UNCHANGED <<cfgVars, schedVars, nseg, movie_file, pacerVars, outcome, joined,
                   loaderVars>>

\* _play_single_video, lines 204-206: a fresh queue, a fresh FrameLoader, start().
StartLoader ==
    /\ pc = "start"
    /\ nseg' = nseg + 1
    /\ frame_queue' = [frame_queue EXCEPT ![nseg + 1] = <<>>]
    /\ lpc' = [lpc EXCEPT ![nseg + 1] = "open"]
    /\ outcome' = "none"
    /\ pc' = "play"
    /\ UNCHANGED <<cfgVars, schedVars, segVars, pacerVars, joined,
                   stop_event, error, clip, yielded, puts, raised, stops>>

\* A variant of ExitFrames: sys.exit() ends the process at once, past the finally
\* block of _play_single_video.
ExitFramesNoFinally(o) ==
    /\ outcome' = o
    /\ pc' = IF o = "quit" THEN "exited" ELSE "stop"
    /\ frame' = 0
    /\ now' = 0
    /\ current_time' = 0
    /\ next_frame_time' = 0
    /\ elapsed_time' = 0
    /\ rendered' = 0
    /\ event' = "none"
    /\ last_get' = NoGet

\* _play_frames is left (break, raise, sys.exit) with outcome o; its locals are gone.
ExitFrames(o) ==
    /\ outcome' = o
    /\ pc' = "stop"
    /\ frame' = 0
    /\ now' = 0
    /\ current_time' = 0
    /\ next_frame_time' = 0
    /\ elapsed_time' = 0
    /\ rendered' = 0
    /\ event' = "none"
    /\ last_get' = NoGet

\* _play_frames, lines 218-223: os.path.getsize may raise.  The clock is read
\* relative to this call: now = 0 is the time.time() of line 219.
PlayFramesEnter ==
    /\ pc = "play"
    /\ \E ok \in BOOLEAN :
          IF ok
          THEN /\ now' = 0
               /\ next_frame_time' = 0
               /\ elapsed_time' = 0
               /\ rendered' = 0
               /\ current_time' = 0
               /\ frame' = 0
               /\ event' = "none"
               /\ last_get' = NoGet
               /\ pc' = "tick"
               /\ UNCHANGED outcome
          ELSE ExitFrames("oserror")
    /\ UNCHANGED <<cfgVars, schedVars, nseg, segVars, joined, loaderVars>>

\* ---------------------------------------------------- the main thread: pacer
\* A variant of PacerTick: no wait for the deadline.
PacerTickNoWait ==
    /\ pc = "tick"
    /\ current_time' = now
    /\ pc' = "get"
    /\ UNCHANGED <<cfgVars, schedVars, nseg, segVars, frame, now, next_frame_time,
                   elapsed_time, rendered, event, last_get, outcome, joined, loaderVars>>

\* _play_frames, lines 226-230: read the clock; before the deadline, sleep until
\* it and start the iteration again.
PacerTick ==
    /\ pc = "tick"
    /\ current_time' = now
    /\ IF now < next_frame_time
       THEN /\ now' = next_frame_time
            /\ pc' = "tick"
       ELSE /\ pc' = "get"
            /\ UNCHANGED now
    /\ UNCHANGED <<cfgVars, schedVars, nseg, segVars, frame, next_frame_time,
                   elapsed_time, rendered, event, last_get, outcome, joined, loaderVars>>

\* A variant of PacerGet: a get that times out raises whether or not the loader has
\* recorded an error.
PacerGetStallRaises ==
    /\ pc = "get"
    /\ LET q == frame_queue[nseg] IN
       IF q # <<>>
       THEN /\ frame_queue' = [frame_queue EXCEPT ![nseg] = Tail(q)]
            /\ IF Head(q) = EndMarker
               THEN ExitFrames("eos")
               ELSE /\ frame' = Head(q)
                    /\ last_get' = now
                    /\ pc' = "events"
                    /\ UNCHANGED <<outcome, now, current_time, next_frame_time,
                                   elapsed_time, rendered, event>>
       ELSE /\ ExitFrames("error")
            /\ UNCHANGED frame_queue
    /\ UNCHANGED <<cfgVars, schedVars, nseg, segVars, joined,
                   lpc, stop_event, error, clip, yielded, puts, raised, stops>>

\* A variant of PacerGet: frame_queue.get() without a timeout.
PacerGetBlocking ==
    /\ pc = "get"
    /\ frame_queue[nseg] # <<>>
    /\ LET q == frame_queue[nseg] IN
       /\ frame_queue' = [frame_queue EXCEPT ![nseg] = Tail(q)]
       /\ IF Head(q) = EndMarker
          THEN ExitFrames("eos")
          ELSE /\ frame' = Head(q)
               /\ last_get' = now
               /\ pc' = "events"
               /\ UNCHANGED <<outcome, now, current_time, next_frame_time,
                              elapsed_time, rendered, event>>
    /\ UNCHANGED <<cfgVars, schedVars, nseg, segVars, joined,
                   lpc, stop_event, error, clip, yielded, puts, raised, stops>>

\* _play_frames, lines 232-240: frame_queue.get(timeout=1).  An item is taken when
\* there is one; on an empty queue the get waits (no step) or times out, and then
\* a recorded loader.error is raised and otherwise the loop is left.
PacerGet ==
    /\ pc = "get"
    /\ LET q == frame_queue[nseg] IN
       IF q # <<>>
       THEN /\ frame_queue' = [frame_queue EXCEPT ![nseg] = Tail(q)]
            /\ IF Head(q) = EndMarker
               THEN ExitFrames("eos")
               ELSE /\ frame' = Head(q)
                    /\ last_get' = now
                    /\ pc' = "events"
                    /\ UNCHANGED <<outcome, now, current_time, next_frame_time,
                                   elapsed_time, rendered, event>>
       ELSE /\ ExitFrames(IF error[nseg] # "none" THEN "error" ELSE "stall")
            /\ UNCHANGED frame_queue
    /\ UNCHANGED <<cfgVars, schedVars, nseg, segVars, joined,
                   lpc, stop_event, error, clip, yielded, puts, raised, stops>>

\* _handle_events, lines 280-293, called at line 242: what the pending events come
\* to.  QUIT or K_q: sys.exit(); K_s: True; a resize or nothing: False.
Events == {"none", "resize", "skip", "quit"}

\* A variant of PacerEvents: a resize restarts the frame period.
PacerEventsResizeRepaces ==
    /\ pc = "events"
    /\ \E ev \in Events :
          IF ev \in {"skip", "quit"}
          THEN ExitFrames(ev)
          ELSE /\ pc' = "display"
               /\ event' = ev
               /\ next_frame_time' = IF ev = "resize" THEN now + frame_time
                                                      ELSE next_frame_time
               /\ UNCHANGED <<outcome, frame, now, current_time,
                              elapsed_time, rendered, last_get>>
    /\ UNCHANGED <<cfgVars, schedVars, nseg, segVars, joined, loaderVars>>

PacerEvents ==
    /\ pc = "events"
    /\ \E ev \in Events :
          IF ev \in {"skip", "quit"}
          THEN ExitFrames(ev)
          ELSE /\ pc' = "display"
               /\ event' = ev
               /\ UNCHANGED <<outcome, frame, now, current_time, next_frame_time,
                              elapsed_time, rendered, last_get>>
    /\ UNCHANGED <<cfgVars, schedVars, nseg, segVars, joined, loaderVars>>

\* A variant of PacerDisplay: the times advance although displaying the frame raised.
PacerDisplayAlwaysAdvances ==
    /\ pc = "display"
    /\ \E ok \in BOOLEAN :
          /\ rendered' = IF ok THEN rendered + 1 ELSE rendered
          /\ elapsed_time' = elapsed_time + frame_time
          /\ next_frame_time' = current_time + frame_time
    /\ event' = "none"
    /\ pc' = "tick"
    /\ UNCHANGED <<cfgVars, schedVars, nseg, segVars, frame, now, current_time,
                   last_get, outcome, joined, loaderVars>>

\* _play_frames, lines 246-278: display the frame; an exception while displaying is
\* printed and the loop continues without advancing the times.
PacerDisplay ==
    /\ pc = "display"
    /\ \E ok \in BOOLEAN :
          IF ok
          THEN /\ rendered' = rendered + 1
               /\ elapsed_time' = elapsed_time + frame_time
               /\ next_frame_time' = current_time + frame_time
          ELSE UNCHANGED <<rendered, elapsed_time, next_frame_time>>
    /\ event' = "none"
    /\ pc' = "tick"
    /\ UNCHANGED <<cfgVars, schedVars, nseg, segVars, frame, now, current_time,
                   last_get, outcome, joined, loaderVars>>

\* ------------------------------------------- the main thread: the finally block
\* FrameLoader.stop, line 57: self.stop_event.set().
StopSet(l) ==
    /\ stop_event' = [stop_event EXCEPT ![l] = TRUE]
    /\ UNCHANGED <<lpc, error, clip, yielded, frame_queue, puts, raised, stops>>

\* A variant of StopClose: stop() also enqueues the end marker.
StopCloseAndMark(l) ==
    /\ clip' = [clip EXCEPT ![l] = IF clip[l] # "none" THEN "closed" ELSE clip[l]]
    /\ stops' = [stops EXCEPT ![l] = @ + 1]
    /\ frame_queue' = [frame_queue EXCEPT ![l] =
                         IF Len(@) < maxsize THEN Append(@, EndMarker) ELSE @]
    /\ UNCHANGED <<lpc, stop_event, error, yielded, puts, raised>>

\* FrameLoader.stop, lines 58-59: close the clip when there is one.  clip.close()
\* is taken as the library documents it: it releases the reader, raises nothing,
\* and changes nothing on a closed clip.  The call of stop() is complete.
StopClose(l) ==
    /\ clip' = [clip EXCEPT ![l] = IF clip[l] # "none" THEN "closed" ELSE clip[l]]
    /\ stops' = [stops EXCEPT ![l] = @ + 1]
    /\ UNCHANGED <<lpc, stop_event, error, yielded, frame_queue, puts, raised>>

\* _play_single_video, line 214: loader.stop() in the finally block.
MainStopSet ==
    /\ pc = "stop"
    /\ StopSet(nseg)
    /\ pc' = "stop_close"
    /\ UNCHANGED <<cfgVars, schedVars, nseg, segVars, pacerVars, outcome, joined>>

MainStopClose ==
    /\ pc = "stop_close"
    /\ StopClose(nseg)
    /\ pc' = "join"
    /\ UNCHANGED <<cfgVars, schedVars, nseg, segVars, pacerVars, outcome, joined>>

\* The queue and the loader's frame generator are referred to by the locals of
\* _play_single_video and by the running thread only: once the call has returned
\* and the thread has ended they are garbage, and the model forgets them.
Released(f, l, empty) == [f EXCEPT ![l] = empty]

\* The main thread is outside _play_single_video's call for segment l.
Returned(l) == l < nseg \/ pc \in {"loop", "plan", "start", "exited"}

\* A variant of AfterSegment: play_playlist without the except clause of line 181.
AfterSegmentUncaught(o) == IF o \in {"quit", "error", "oserror"} THEN "exited" ELSE "loop"

\* What follows the finally block of _play_single_video: sys.exit() leaves
\* play_playlist (SystemExit is no Exception); an Exception is caught at line 181
\* and the loop continues, as it does after a normal return.
AfterSegment(o) == IF o = "quit" THEN "exited" ELSE "loop"

\* A variant of MainJoin: the finally block without the join.
MainJoinSkipped ==
    /\ pc = "join"
    /\ pc' = AfterSegment(outcome)
    /\ UNCHANGED <<cfgVars, schedVars, nseg, segVars, pacerVars, outcome, joined, loaderVars>>

\* loader.join(timeout=1), line 215: returns when the thread has ended, or after the
\* timeout with the thread still alive.
MainJoin ==
    /\ pc = "join"
    /\ joined' = [joined EXCEPT ![nseg] = IF lpc[nseg] = "done" THEN "ended" ELSE "timeout"]
    /\ pc' = AfterSegment(outcome)
    /\ IF lpc[nseg] = "done"
       THEN /\ frame_queue' = Released(frame_queue, nseg, <<>>)
            /\ puts' = Released(puts, nseg, <<>>)
            /\ yielded' = Released(yielded, nseg, 0)
       ELSE UNCHANGED <<frame_queue, puts, yielded>>
    /\ UNCHANGED <<cfgVars, schedVars, nseg, segVars, pacerVars, outcome,
                   lpc, stop_event, error, clip, raised, stops>>

\* ------------------------------------------------------ the FrameLoader thread
\* Thread l is at position `at` of run.  FrameLoader threads are daemon threads
\* (line 19): they end with the process when sys.exit() has left the main thread.
Running(l, at) == lpc[l] = at /\ pc # "exited"

\* A variant of RecordError: the exception is printed and not kept.
RecordErrorLost(l, e) ==
    UNCHANGED error

\* run, lines 45-47: except Exception as e: self.error = e.
RecordError(l, e) ==
    error' = [error EXCEPT ![l] = e]

\* run, lines 26-28: VideoFileClip(path) may raise before self.clip is bound;
\* subclip/set_fps may raise after it.  An exception is recorded at lines 45-47.
LoaderOpen(l) ==
    /\ Running(l, "open")
    /\ \E r \in {"ok", "raise_open", "raise_subclip"} :
          /\ clip' = [clip EXCEPT ![l] = IF r = "raise_open" THEN clip[l] ELSE "open"]
          /\ IF r = "ok" THEN UNCHANGED error ELSE RecordError(l, "OpenError")
          /\ raised' = [raised EXCEPT ![l] = (r # "ok")]
          /\ lpc' = [lpc EXCEPT ![l] = IF r = "ok" THEN "decode" ELSE "finally"]
    /\ UNCHANGED <<cfgVars, schedVars, pc, nseg, segVars, pacerVars, outcome, joined,
                   stop_event, yielded, frame_queue, puts, stops>>

\* run, line 30: the next item of subclip.iter_frames: a frame, the end of the
\* sequence, or an exception (recorded at lines 45-47).  A decoder that is slow, or
\* never returns, is this step not being taken yet.
LoaderDecode(l) ==
    /\ Running(l, "decode")
    /\ \E r \in {"frame", "end", "raise"} :
          /\ r = "frame" => yielded[l] < MaxFrames
          /\ yielded' = [yielded EXCEPT ![l] = IF r = "frame" THEN @ + 1 ELSE @]
          /\ IF r = "raise" THEN RecordError(l, "DecodeError") ELSE UNCHANGED error
          /\ raised' = [raised EXCEPT ![l] = (r = "raise")]
          /\ lpc' = [lpc EXCEPT ![l] = IF r = "frame" THEN "check_stop" ELSE "finally"]
    /\ UNCHANGED <<cfgVars, schedVars, pc, nseg, segVars, pacerVars, outcome, joined,
                   stop_event, clip, frame_queue, puts, stops>>

\* run, lines 31-32.
LoaderCheckStop(l) ==
    /\ Running(l, "check_stop")
    /\ lpc' = [lpc EXCEPT ![l] = IF stop_event[l] THEN "finally" ELSE "put"]
    /\ UNCHANGED <<cfgVars, schedVars, pc, nseg, segVars, pacerVars, outcome, joined,
                   stop_event, error, clip, yielded, frame_queue, puts, raised, stops>>

\* A variant of LoaderPut: the frame is appended to an unbounded list and the
\* loop goes on with the next frame at once.
LoaderPutUnbounded(l) ==
    /\ Running(l, "put")
    /\ frame_queue' = [frame_queue EXCEPT ![l] = Append(@, yielded[l])]
    /\ puts' = [puts EXCEPT ![l] = Append(@, yielded[l])]
    /\ lpc' = [lpc EXCEPT ![l] = "decode"]
    /\ UNCHANGED <<cfgVars, schedVars, pc, nseg, segVars, pacerVars, outcome, joined,
                   stop_event, error, clip, yielded, raised, stops>>

\* run, lines 34-39: frame_queue.put(frame, timeout=1).  With room the frame is
\* enqueued; on a full queue the put waits (no step) or times out with queue.Full,
\* and the loop breaks when stopped and otherwise continues with the next frame.
LoaderPut(l) ==
    /\ Running(l, "put")
    /\ IF Len(frame_queue[l]) < maxsize
       THEN /\ frame_queue' = [frame_queue EXCEPT ![l] = Append(@, yielded[l])]
            /\ puts' = [puts EXCEPT ![l] = Append(@, yielded[l])]
            /\ lpc' = [lpc EXCEPT ![l] = "throttle"]
       ELSE /\ lpc' = [lpc EXCEPT ![l] = IF stop_event[l] THEN "finally" ELSE "decode"]
            /\ UNCHANGED <<frame_queue, puts>>
    /\ UNCHANGED <<cfgVars, schedVars, pc, nseg, segVars, pacerVars, outcome, joined,
                   stop_event, error, clip, yielded, raised, stops>>

\* A variant of LoaderThrottle: run without the wait of lines 41-43.
LoaderThrottleNone(l) ==
    /\ Running(l, "throttle")
    /\ lpc' = [lpc EXCEPT ![l] = "decode"]
    /\ UNCHANGED <<cfgVars, schedVars, pc, nseg, segVars, pacerVars, outcome, joined,
                   stop_event, error, clip, yielded, frame_queue, puts, raised, stops>>

\* run, lines 41-43: sleep 10 ms at a time while the queue holds self.preload_size
\* items or more and the loader is not stopped.
LoaderThrottle(l) ==
    /\ Running(l, "throttle")
    /\ lpc' = [lpc EXCEPT ![l] =
                 IF Len(frame_queue[l]) >= preload[l] /\ ~stop_event[l]
                 THEN "throttle" ELSE "decode"]
    /\ UNCHANGED <<cfgVars, schedVars, pc, nseg, segVars, pacerVars, outcome, joined,
                   stop_event, error, clip, yielded, frame_queue, puts, raised, stops>>

\* A variant of LoaderFinally: run without the close of lines 49-50.
LoaderFinallyNoClose(l) ==
    /\ Running(l, "finally")
    /\ lpc' = [lpc EXCEPT ![l] = "put_end"]
    /\ UNCHANGED <<cfgVars, schedVars, pc, nseg, segVars, pacerVars, outcome, joined,
                   stop_event, error, clip, yielded, frame_queue, puts, raised, stops>>

\* run, lines 48-50.
LoaderFinally(l) ==
    /\ Running(l, "finally")
    /\ clip' = [clip EXCEPT ![l] = IF clip[l] # "none" THEN "closed" ELSE clip[l]]
    /\ lpc' = [lpc EXCEPT ![l] = "put_end"]
    /\ UNCHANGED <<cfgVars, schedVars, pc, nseg, segVars, pacerVars, outcome, joined,
                   stop_event, error, yielded, frame_queue, puts, raised, stops>>

\* run, lines 51-54: frame_queue.put(None, timeout=1); queue.Full is passed over.
LoaderPutEnd(l) ==
    /\ Running(l, "put_end")
    /\ IF Returned(l)
       THEN /\ frame_queue' = Released(frame_queue, l, <<>>)
            /\ puts' = Released(puts, l, <<>>)
            /\ yielded' = Released(yielded, l, 0)
       ELSE /\ IF Len(frame_queue[l]) < maxsize
               THEN /\ frame_queue' = [frame_queue EXCEPT ![l] = Append(@, EndMarker)]
                    /\ puts' = [puts EXCEPT ![l] = Append(@, EndMarker)]
               ELSE UNCHANGED <<frame_queue, puts>>
            /\ UNCHANGED yielded
    /\ lpc' = [lpc EXCEPT ![l] = "done"]
    /\ UNCHANGED <<cfgVars, schedVars, pc, nseg, segVars, pacerVars, outcome, joined,
                   stop_event, error, clip, raised, stops>>

Loader(l) ==
    \/ LoaderOpen(l)
    \/ LoaderDecode(l)
    \/ LoaderCheckStop(l)
    \/ LoaderPut(l)
    \/ LoaderThrottle(l)
    \/ LoaderFinally(l)
    \/ LoaderPutEnd(l)

Main ==
    \/ PickMovie
    \/ PlanSegment
    \/ StartLoader
    \/ PlayFramesEnter
    \/ PacerTick
    \/ PacerGet
    \/ PacerEvents
    \/ PacerDisplay
    \/ MainStopSet
    \/ MainStopClose
    \/ MainJoin

Next == Main \/ \E l \in Segs : Loader(l)

Spec == Init /\ [][Next]_vars

\* ----------------------------------------------------- the first segment alone
\* The program from its start to the end of its first segment: one FrameLoader, one
\* queue and the pacer, up to the return of _play_single_video.
NextOne ==
    \/ PickMovie
    \/ PlanSegment
    \/ (nseg = 0 /\ StartLoader)
    \/ PlayFramesEnter
    \/ PacerTick
    \/ PacerGet
    \/ PacerEvents
    \/ PacerDisplay
    \/ MainStopSet
    \/ MainStopClose
    \/ MainJoin
    \/ Loader(1)

SpecOne == Init /\ [][NextOne]_vars

\* The steps of the main thread in NextOne.
MainOne ==
    \/ PickMovie
    \/ PlanSegment
    \/ (nseg = 0 /\ StartLoader)
    \/ PlayFramesEnter
    \/ PacerTick
    \/ PacerGet
    \/ PacerEvents
    \/ PacerDisplay
    \/ MainStopSet
    \/ MainStopClose
    \/ MainJoin

\* The first segment with a main thread that keeps running: whenever it can take a
\* step it takes one in the end (its sleeps end and its get and its join return by
\* their timeouts).  Nothing is assumed of the FrameLoader thread, which may stop
\* anywhere for good: in VideoFileClip(), in a decode, in its throttle.
SpecLive == Init /\ [][NextOne]_vars /\ WF_vars(MainOne)

\* --------------------------------------------- the first segment with a free clock
\* time.time() (lines 219, 226): while _play_frames runs the clock goes on by
\* itself, at any point of the loop: while get waits, while the events are polled,
\* while the frame is displayed.  A step of the program may take less than a frame
\* period (the clock stands) or more.
ClockAdvance ==
    /\ pc \in {"tick", "get", "events", "display"}
    /\ now < MaxClock
    /\ now' = now + 1
    /\ UNCHANGED <<cfgVars, schedVars, pc, nseg, segVars, frame, current_time,
                   next_frame_time, elapsed_time, rendered, event, last_get,
                   outcome, joined, loaderVars>>

NextPace ==
    \/ PickMovie
    \/ PlanSegment
    \/ (nseg = 0 /\ StartLoader)
    \/ PlayFramesEnter
    \/ PacerTick
    \/ PacerGet
    \/ PacerEvents
    \/ PacerDisplay
    \/ ClockAdvance
    \/ MainStopSet
    \/ MainStopClose
    \/ MainJoin
    \/ Loader(1)

SpecPace == Init /\ [][NextPace]_vars

\* ------------------------------------------------------ the scheduler on its own
\* play_playlist with the call of _play_single_video (lines 179-183) as one step:
\* the call returns, or raises an Exception, or sys.exit() goes through it.  It
\* reads self.movie_durations and touches neither self.playlist nor
\* self.current_index.
SegmentOutcomes == {"eos", "stall", "error", "oserror", "skip", "quit"}

PlaySingleVideo ==
    /\ pc = "start"
    /\ \E o \in SegmentOutcomes :
          /\ outcome' = o
          /\ pc' = AfterSegment(o)
    /\ UNCHANGED <<cfgVars, schedVars, nseg, segVars, pacerVars, joined, loaderVars>>

InitSched ==
    /\ min_interval = 1
    /\ max_interval = 2
    /\ movie_durations \in [Files -> 0..MaxDuration]
    /\ movie_files = Suitable(movie_durations, min_interval)
    /\ movie_files # {}
    /\ playlist \in Shuffles(movie_files)
    /\ current_index = 0
    /\ pc = "loop"
    /\ nseg = 0
    /\ movie_file = "a"
    /\ play_duration = 0
    /\ start_time = 0
    /\ end_time = 0
    /\ PacerInitState
    /\ LoaderInit

NextSched == PickMovie \/ PlanSegment \/ PlaySingleVideo

SpecSched == InitSched /\ [][NextSched]_vars

\* ------------------------------------------------ the segment window on its own
\* _play_single_video's window computation for any asset and any configuration
\* main accepts (lines 320-327: integers with min_interval <= max_interval).
Intervals == (0 - 1)..MaxInterval

InitSeg ==
    /\ min_interval \in Intervals
    /\ max_interval \in Intervals
    /\ ~(max_interval < min_interval)
    /\ movie_durations \in [Files -> 0..MaxDuration]
    /\ movie_files = Files
    /\ playlist = <<"a", "b">>
    /\ movie_file \in Files
    /\ current_index = 1
    /\ pc = "plan"
    /\ nseg = 0
    /\ play_duration = 0
    /\ start_time = 0
    /\ end_time = 0
    /\ PacerInitState
    /\ LoaderInit

SpecSeg == InitSeg /\ [][PlanSegment]_vars

\* --------------------------------------------------- one FrameLoader and its owner
\* A FrameLoader with its queue, an owner that starts it, calls stop() at any time
\* (before the start, while it runs, after it has finished, more than once), and a
\* consumer that takes items off the queue.
InitStop ==
    /\ min_interval = 1
    /\ max_interval = 2
    /\ movie_durations = [f \in Files |-> 1]
    /\ movie_files = Files
    /\ playlist = <<"a", "b">>
    /\ movie_file = "a"
    /\ current_index = 1
    /\ pc = "idle"
    /\ nseg = 1
    /\ play_duration = 1
    /\ start_time = 0
    /\ end_time = 1
    /\ PacerInitState
    /\ LoaderInit

\* loader.start()
OwnerStart ==
    /\ lpc[1] = "unstarted"
    /\ lpc' = [lpc EXCEPT ![1] = "open"]
    /\ UNCHANGED <<cfgVars, schedVars, pc, nseg, segVars, pacerVars, outcome, joined,
                   stop_event, error, clip, yielded, frame_queue, puts, raised, stops>>

\* loader.stop(), line 57
OwnerStopSet ==
    /\ pc = "idle"
    /\ stops[1] < MaxStops
    /\ StopSet(1)
    /\ pc' = "stopping"
    /\ UNCHANGED <<cfgVars, schedVars, nseg, segVars, pacerVars, outcome, joined>>

\* loader.stop(), lines 58-59
OwnerStopClose ==
    /\ pc = "stopping"
    /\ StopClose(1)
    /\ pc' = "idle"
    /\ UNCHANGED <<cfgVars, schedVars, nseg, segVars, pacerVars, outcome, joined>>

\* frame_queue.get()
OwnerGet ==
    /\ frame_queue[1] # <<>>
    /\ frame_queue' = [frame_queue EXCEPT ![1] = Tail(@)]
    /\ UNCHANGED <<cfgVars, schedVars, pc, nseg, segVars, pacerVars, outcome, joined,
                   lpc, stop_event, error, clip, yielded, puts, raised, stops>>

NextStop == OwnerStart \/ OwnerStopSet \/ OwnerStopClose \/ OwnerGet \/ Loader(1)

SpecStop == InitStop /\ [][NextStop]_vars

\* ------------------------------------- a FrameLoader with another preload_size
\* FrameLoader.__init__ takes preload_size as an argument (line 11, default 120)
\* and the queue from its caller.  Here the loader is constructed with a
\* preload_size above the capacity of its queue, which _play_single_video never
\* does: the throttle of lines 41-43 then never waits.
InitFull ==
    /\ min_interval = 1
    /\ max_interval = 2
    /\ movie_durations = [f \in Files |-> 1]
    /\ movie_files = Files
    /\ playlist = <<"a", "b">>
    /\ movie_file = "a"
    /\ current_index = 1
    /\ pc = "idle"
    /\ nseg = 1
    /\ play_duration = 1
    /\ start_time = 0
    /\ end_time = 1
    /\ PacerInitState
    /\ lpc = [l \in Segs |-> "unstarted"]
    /\ stop_event = [l \in Segs |-> FALSE]
    /\ error = [l \in Segs |-> "none"]
    /\ clip = [l \in Segs |-> "none"]
    /\ yielded = [l \in Segs |-> 0]
    /\ frame_queue = [l \in Segs |-> <<>>]
    /\ puts = [l \in Segs |-> <<>>]
    /\ raised = [l \in Segs |-> FALSE]
    /\ stops = [l \in Segs |-> 0]
    /\ preload = [l \in Segs |-> maxsize + 1]
    /\ outcome = "none"
    /\ joined = [l \in Segs |-> "no"]

SpecFull == InitFull /\ [][NextStop]_vars

\* ------------------------------------------------------------------ properties
TypeOK ==
    /\ pc \in {"loop", "plan", "start", "play", "tick", "get", "events", "display",
               "stop", "stop_close", "join", "exited", "idle", "stopping"}
    /\ nseg \in 0..MaxSegments
    /\ current_index \in 0..Len(playlist)
    /\ outcome \in {"none", "eos", "stall", "error", "oserror", "skip", "quit"}
    /\ event \in {"none", "resize"}
    /\ last_get \in {NoGet} \cup (0..now)
    /\ rendered \in 0..MaxFrames
    /\ elapsed_time \in 0..MaxFrames
    /\ \A l \in Segs :
          /\ lpc[l] \in {"unstarted", "open", "decode", "check_stop", "put", "throttle",
                          "finally", "put_end", "done"}
          /\ error[l] \in {"none", "OpenError", "DecodeError"}
          /\ clip[l] \in {"none", "open", "closed"}
          /\ yielded[l] \in 0..MaxFrames
          /\ joined[l] \in {"no", "ended", "timeout"}
          /\ preload[l] \in {preload_size, maxsize + 1}

\* The frames 1..n in order, then the end marker.
FramesThenEnd(n) == [i \in 1..(n + 1) |-> IF i <= n THEN i ELSE EndMarker]

\* C1: in every reachable state every segment's frame queue holds at most maxsize
\* items, however the loader's puts and the pacer's gets interleave.
C1_QueueWithinCapacity ==
    \A l \in Segs : Len(frame_queue[l]) <= maxsize

\* C1 witness: a queue from which the pacer has taken frames and which holds
\* preload_size frames and the end marker.
C1_Witness ==
    \E l \in Segs :
        /\ Len(frame_queue[l]) = preload_size + 1
        /\ Head(frame_queue[l]) > 1

\* C2: a loader that was not cancelled and whose Frame Source raised after N frames
\* has finished with the error recorded, having put exactly the frames 1..N in
\* order and then the end marker.
C2_RaiseAfterN ==
    \A l \in Segs :
        (lpc[l] = "done" /\ raised[l] /\ ~stop_event[l])
            => /\ error[l] # "none"
               /\ puts[l] = FramesThenEnd(yielded[l])

\* C2 witness: such a loader, after two frames or more.
C2_Witness ==
    \E l \in Segs :
        /\ lpc[l] = "done" /\ raised[l] /\ ~stop_event[l]
        /\ yielded[l] >= 2
        /\ error[l] = "DecodeError"

\* C3 (as claimed): a segment whose loader recorded an error is never ended as a
\* normal end of stream.
C3_FailureNeverEndOfStream ==
    outcome = "eos" => error[nseg] = "none"

\* C4 (as claimed): a loader on which stop() has been called and completed while a
\* frame decode was in progress, the clip released by that call and no error
\* recorded, records no error afterwards: it ends Stopped, not Failed.
C4_CancelledNeverFails ==
    [][\A l \in Segs :
          (stops[l] >= 1 /\ stop_event[l] /\ clip[l] = "closed" /\ lpc[l] = "decode"
             /\ error[l] = "none")
            => error'[l] = "none"]_vars

\* C5: a call of stop() on a loader on which stop() has been called before changes
\* neither the cancel flag nor the recorded error nor the queue, whenever it is made.
C5_SecondStopNoOp ==
    [][(stops[1] >= 1 /\ pc' # pc)
         => /\ stop_event' = stop_event
            /\ error' = error
            /\ frame_queue' = frame_queue
            /\ lpc' = lpc]_vars

\* C5 witness: a second call completed on a running loader with frames queued.
C5_Witness ==
    /\ stops[1] >= 2
    /\ lpc[1] = "decode"
    /\ frame_queue[1] # <<>>

\* C6: the length of a segment is within [min_interval, max_interval], except that
\* it is the whole duration when the duration is below min_interval.
C6_SegmentLength ==
    pc = "start" =>
        LET d == movie_durations[movie_file]
            len == end_time - start_time
        IN  IF d < min_interval
            THEN len = d
            ELSE min_interval <= len /\ len <= max_interval

\* C6 witness: an asset longer than max_interval played for max_interval seconds
\* from a later start.
C6_Witness ==
    /\ pc = "start"
    /\ movie_durations[movie_file] > max_interval
    /\ end_time - start_time = max_interval
    /\ min_interval < max_interval
    /\ start_time > 0

\* C7: the window of a segment lies inside the asset: 0 <= start_time and
\* end_time <= duration.
C7_WindowInsideAsset ==
    pc = "start" =>
        /\ 0 <= start_time
        /\ end_time <= movie_durations[movie_file]

\* C7 witness: a window that starts late and ends at the end of the asset.
C7_Witness ==
    /\ pc = "start"
    /\ start_time > 0
    /\ end_time = movie_durations[movie_file]

\* C8 (as claimed): when the loader of the next segment has been started, every
\* earlier loader's thread has ended.
C8_NoOverlap ==
    \A l \in Segs : l < nseg => lpc[l] = "done"

\* C8 (amended): when the loader of the next segment has been started, every
\* earlier loader has been cancelled, and its thread has ended unless the join
\* on it timed out.
C8_OverlapOnlyAfterJoinTimeout ==
    \A l \in Segs :
        l < nseg => /\ stop_event[l]
                    /\ lpc[l] = "done" \/ joined[l] = "timeout"

\* C8 witness: the second loader runs and the first ended before its join returned.
C8_Witness ==
    /\ nseg = 2
    /\ lpc[2] = "decode"
    /\ lpc[1] = "done"
    /\ joined[1] = "ended"

\* C9: once control has left _play_single_video, however _play_frames ended,
\* stop() has been called on the segment's loader (its cancel flag is set) and
\* join has been attempted.
C9_CancelledAndJoined ==
    \A l \in Segs :
        (l <= nseg /\ Returned(l))
            => /\ stop_event[l]
               /\ stops[l] = 1
               /\ joined[l] # "no"

\* C9 witness: the session has ended on a quit, the loader cancelled and join
\* attempted.
C9_Witness ==
    /\ pc = "exited"
    /\ outcome = "quit"
    /\ stop_event[nseg]
    /\ joined[nseg] # "no"

\* C10: only a quit ends the session: after any other outcome of a segment the
\* main thread is back in the loop of play_playlist.
C10_OnlyQuitEndsSession ==
    /\ pc = "exited" => outcome = "quit"
    /\ (pc \in {"loop", "plan", "start"} /\ nseg >= 1) => outcome # "quit"

\* C10 witness: after a segment ended on a propagated decode error the next asset
\* has been chosen and planned.
C10_Witness ==
    /\ pc = "start"
    /\ nseg = 1
    /\ outcome = "error"

\* The pacing state of _play_frames: its clock reads, its deadline, its counters.
PacingState == <<current_time, next_frame_time, elapsed_time, rendered, last_get>>

\* C11: after a quit no frame is rendered and no segment is started, and the
\* session ends; a skip ends the segment without rendering the frame in hand and
\* the scheduler goes on to the next asset; a resize leaves the frame in hand to be
\* displayed and the pacing state as it was.
C11_InterruptEffects ==
    [][/\ outcome = "quit"
            => /\ nseg' = nseg
               /\ rendered' <= rendered
               /\ pc' \in {"stop", "stop_close", "join", "exited"}
       /\ (pc = "events" /\ outcome' = "skip")
            => /\ pc' = "stop"
               /\ rendered' # rendered + 1
       /\ outcome = "skip"
            => /\ pc' \in {"stop", "stop_close", "join", "loop", "plan", "start", "play"}
               /\ rendered' <= rendered
       /\ (pc = "events" /\ event' = "resize")
            => /\ pc' = "display"
               /\ frame' = frame
               /\ outcome' = outcome
               /\ PacingState' = PacingState]_vars

\* C11 witness: in the second segment, started after the first one ended, a
\* resize was found with a frame in hand, which is now to be displayed.
C11_Witness ==
    /\ nseg = 2
    /\ pc = "display"
    /\ event = "resize"
    /\ rendered >= 1
    /\ joined[1] = "ended"

\* The main thread is inside the loop of _play_frames.
InPlayFrames == pc \in {"tick", "get", "events", "display"}

\* C12: within a segment elapsed_time starts at 0, never decreases, changes only
\* in the step that renders a frame, and then by one frame period: after k rendered
\* frames it is k frame periods.
C12_ElapsedPerRenderedFrame ==
    [][/\ (pc = "play" /\ pc' = "tick") => elapsed_time' = 0
       /\ (InPlayFrames /\ pc' \in {"tick", "get", "events", "display"})
            => /\ elapsed_time' >= elapsed_time
               /\ elapsed_time' = rendered' * frame_time
               /\ IF rendered' = rendered + 1
                  THEN elapsed_time' = elapsed_time + frame_time
                  ELSE elapsed_time' = elapsed_time /\ rendered' = rendered]_vars

\* C12 witness: three frames dequeued, the display of one of them raised, two
\* rendered, and more clock time gone by than the two frame periods.
C12_Witness ==
    /\ pc = "tick"
    /\ frame = 3
    /\ rendered = 2
    /\ elapsed_time = 2 * frame_time
    /\ now > 2 * frame_time

\* C13 (as claimed): between two consecutive dequeues of a frame within a segment
\* at least one frame period of clock time passes.
C13_PeriodBetweenDequeues ==
    [][(pc = "get" /\ pc' = "events" /\ last_get # NoGet)
         => now >= last_get + frame_time]_vars

\* C13 (amended): a frame is dequeued only in an iteration whose clock reading has
\* reached the deadline, and a rendered frame moves the deadline to one frame
\* period after that reading: the clock readings of the iterations that render
\* are at least one frame period apart.
C13_OneRenderPerPeriod ==
    [][/\ (pc = "get" /\ pc' = "events") => current_time >= next_frame_time
       /\ rendered' = rendered + 1
            => /\ current_time >= next_frame_time
               /\ next_frame_time' = current_time + frame_time]_vars

\* C13 witness: the second frame is in hand in an iteration that had to sleep for
\* its deadline, after the first frame was rendered.
C13_Witness ==
    /\ pc = "events"
    /\ frame = 2
    /\ rendered = 1
    /\ current_time = next_frame_time
    /\ last_get = current_time
    /\ current_time >= 2 * frame_time

\* The frames of a sequence of queue items: the items but the end marker.
FramesOf(q) == SelectSeq(q, LAMBDA x : x # EndMarker)

C15_BenignStall ==
    [][/\ (pc = "get" /\ frame_queue[nseg] = <<>> /\ error[nseg] = "none" /\ pc' # "get")
            => /\ outcome' = "stall"
               /\ pc' = "stop"
       /\ outcome = "stall"
            => pc' \in {"stop", "stop_close", "join", "loop", "plan", "start", "play"}]_vars

\* C15 witness: the segment ended as a stall while its loader was still opening the
\* clip, the join timed out, and the next asset has been chosen.
C15_Witness ==
    /\ outcome = "stall"
    /\ pc = "plan"
    /\ nseg = 1
    /\ lpc[1] = "open"
    /\ error[1] = "none"
    /\ joined[1] = "timeout"

\* C16: the first segment ends: once _play_frames has been called for it, either
\* the session ends (a quit) or the scheduler chooses the next asset, whatever the
\* loader does or fails to do.
C16_SegmentEnds ==
    (pc = "play" /\ nseg = 1) ~> (pc = "exited" \/ (pc = "plan" /\ nseg = 1))

\* C16 witness: the loader is stuck in its first decode with nothing enqueued, the
\* segment has ended as a stall, and the scheduler has chosen the next asset.
C16_Witness ==
    /\ pc = "plan"
    /\ nseg = 1
    /\ lpc[1] = "decode"
    /\ yielded[1] = 0
    /\ puts[1] = <<>>
    /\ joined[1] = "timeout"

\* C17: a loader whose run has ended, however it ended, holds no open clip: a clip
\* it opened has been closed, and it has none only when VideoFileClip() raised.
C17_ClipReleased ==
    \A l \in Segs :
        lpc[l] = "done"
            => /\ clip[l] # "open"
               /\ clip[l] = "none" => error[l] = "OpenError"

\* C17 witness: a loader that saw the cancel flag, closed its clip in its own
\* finally block and ended before stop() came to its close.
C17_Witness ==
    /\ lpc[1] = "done"
    /\ clip[1] = "closed"
    /\ stop_event[1]
    /\ stops[1] = 0
    /\ yielded[1] >= 2

\* The playlist is an ordering of the known assets, each once.
IsOrdering(p, S) ==
    /\ Len(p) = Cardinality(S)
    /\ {p[i] : i \in 1..Len(p)} = S

\* C18: current_index stays within 0..len(playlist) and the playlist stays an
\* ordering of the known assets; an asset is selected by taking the next entry of
\* the playlist, which is reshuffled when and only when all its entries have been
\* taken, so that every asset is selected once between two reshuffles; and the
\* loop goes on: in the loop the next selection is always possible, and only a
\* quit leaves it.
C18_PlaylistPasses ==
    /\ [](/\ current_index \in 0..Len(playlist)
          /\ IsOrdering(playlist, movie_files)
          /\ pc = "loop" => ENABLED PickMovie
          /\ pc = "exited" => outcome = "quit")
    /\ [][IF pc = "loop" /\ pc' = "plan"
          THEN /\ movie_file' = playlist'[current_index']
               /\ IF current_index < Len(playlist)
                  THEN /\ playlist' = playlist
                       /\ current_index' = current_index + 1
                  ELSE current_index' = 1
          ELSE UNCHANGED <<playlist, current_index>>]_vars

\* C18 witness: the first entry of a playlist of two assets is selected again after
\* a segment has been played (and failed): both were selected and the playlist was
\* reshuffled.
C18_Witness ==
    /\ pc = "plan"
    /\ Len(playlist) = 2
    /\ current_index = 1
    /\ outcome = "error"

\* C19 (as claimed): the window of a segment built for an asset that discovery
\* admits (duration >= min_interval) is not empty: start_time < end_time.
C19_SegmentNonEmpty ==
    (pc = "start" /\ movie_durations[movie_file] >= min_interval)
        => start_time < end_time

\* C20: a queue never holds more than preload_size frames, nor more than
\* preload_size + 1 items, which is below its capacity; so every put finds room:
\* the put of a frame enqueues it (the queue.Full branch of lines 36-39 is not
\* taken) and the put of the end marker enqueues it (that of lines 53-54 is not),
\* and a loader that has finished has put its end marker last.
C20_PutNeverFull ==
    /\ [](\A l \in Segs :
            /\ Len(FramesOf(frame_queue[l])) <= preload_size
            /\ Len(frame_queue[l]) <= preload_size + 1
            /\ preload_size + 1 <= maxsize
            /\ (lpc[l] = "done" /\ ~Returned(l))
                 => /\ puts[l] # <<>>
                    /\ puts[l][Len(puts[l])] = EndMarker)
    /\ [][\A l \in Segs :
            /\ (lpc[l] \in {"put", "put_end"} /\ lpc'[l] # lpc[l])
                 => Len(frame_queue[l]) < maxsize
            /\ (lpc[l] = "put" /\ lpc'[l] # "put")
                 => /\ lpc'[l] = "throttle"
                    /\ frame_queue'[l] = Append(frame_queue[l], yielded[l])
            /\ (lpc[l] = "put_end" /\ lpc'[l] = "done" /\ ~Returned(l))
                 => frame_queue'[l] = Append(frame_queue[l], EndMarker)]_vars

\* C20 witness: the fullest queue: a loader released from its throttle by the
\* cancel flag has finished and put its end marker behind preload_size frames.
C20_Witness ==
    /\ lpc[1] = "done"
    /\ Len(frame_queue[1]) = preload_size + 1
    /\ frame_queue[1][preload_size + 1] = EndMarker
    /\ stop_event[1]
    /\ pc = "stop_close"

====
